---- MODULE Spec2Model ----
(***************************************************************************)
(* The two notebooks of Bayesian-MRI as state machines.                    *)
(*                                                                         *)
(*   "recon"  demo_recon.ipynb : set up BART and spreco, download the      *)
(*            pre-trained prior and the k-space, load the configuration,   *)
(*            prepare the undersampled data, restore the network, run the  *)
(*            posterior sampler, compute PSNR/SSIM, plot.                  *)
(*   "train"  the training notebook : install spreco, download the data,   *)
(*            build the data pipes, run the trainer.                       *)
(*                                                                         *)
(* A notebook is a sequence of cells, a cell a sequence of statements      *)
(* (Python) or commands (%%bash).  pc[p] is the statement process p is     *)
(* about to execute.  A Python statement that raises ends the run of the   *)
(* notebook.  A %%bash cell is handed to bash as a script: bash goes on    *)
(* after a command that fails, and the cell raises (CalledProcessError)   *)
(* only when the script's exit status, that of its last command, is not 0. *)
(* spreco, BART, TensorFlow and numpy are external: a call into them is a  *)
(* step that returns or raises, and what it returns is drawn from a small  *)
(* set.                                                                    *)
(***************************************************************************)
EXTENDS Integers, Sequences, FiniteSets, TLC

\* ------------------------------------------------------------------ bounds
MaxImages  == 3     \* the sampler returns 1..MaxImages iterations
MaxSamples == 10    \* nr_samples is drawn from NrSamplesSet, up to MaxSamples
MaxCSteps  == 2     \* c_steps is 1..MaxCSteps
MaxLevels  == 3     \* nr_levels is 1..MaxLevels
MaxDim     == 3     \* nx, ny are 2..MaxDim

Procs == {"recon", "train"}

\* ------------------------------------------------------- the two programs
\* demo_recon.ipynb, its code cells in order; prepare_simu's body is inlined
\* at its one call (the ps_ statements).
ReconCells ==
  << [kind |-> "bash",  stmts |-> <<"apt_get", "rm_old_bart", "clone_bart",
                                    "echo_bart", "cd_bart", "make_bart">>],
     [kind |-> "magic", stmts |-> <<"env_toolbox">>],
     [kind |-> "py",    stmts |-> <<"set_path">>],
     [kind |-> "bash",  stmts |-> <<"bart_version">>],
     [kind |-> "bash",  stmts |-> <<"clone_spreco", "cd_spreco", "checkout",
                                    "sed_tf", "sed_pillow", "sed_yaml",
                                    "pip_install">>],
     [kind |-> "bash",  stmts |-> <<"wget_pretrained", "wget_kspace",
                                    "mkdir_data", "tar_pretrained",
                                    "mv_kspace">>],
     [kind |-> "py",    stmts |-> <<"import_spreco", "import_libs">>],
     [kind |-> "py",    stmts |-> <<"config_path", "load_config",
                                    "load_model_config", "model_path",
                                    "seed_1", "seed_2">>],
     [kind |-> "py",    stmts |-> <<"def_prepare_simu", "call_prepare_simu",
                                    "ps_load_kspace", "ps_ecalib_1",
                                    "ps_mifft2", "ps_rss", "ps_mask",
                                    "ps_und_ksp", "ps_ecalib_2", "ps_AT_cart",
                                    "ps_return", "normalize_zero_filled",
                                    "l1_recon", "bind_AHA">>],
     [kind |-> "py",    stmts |-> <<"build_graph", "init_variables",
                                    "restore", "ins_sampler", "run_sampler",
                                    "burn_slice">>],
     [kind |-> "py",    stmts |-> <<"normalize", "total_steps",
                                    "expectations", "init_lists", "loop_head",
                                    "tmp_init",
                                    "psnr_1", "ssim_1", "psnr_2", "ssim_2",
                                    "psnr_4", "ssim_4", "psnr_8", "ssim_8",
                                    "psnr_10", "ssim_10",
                                    "append_psnrs", "append_ssims",
                                    "to_array">>],
     [kind |-> "py",    stmts |-> <<"plot_setup", "plot_curves",
                                    "plot_axes">>],
     [kind |-> "py",    stmts |-> <<"compare">>],
     [kind |-> "py",    stmts |-> <<"grid">>] >>

\* The training notebook, its code cells in order.
TrainCells ==
  << [kind |-> "bash",  stmts |-> <<"clone_spreco", "cd_spreco", "checkout",
                                    "sed_tf", "sed_pillow", "sed_yaml",
                                    "pip_install">>],
     [kind |-> "bash",  stmts |-> <<"wget_brain", "mkdir_data",
                                    "tar_brain">>],
     [kind |-> "py",    stmts |-> <<"import_spreco", "config_path",
                                    "load_config", "find_train", "find_test",
                                    "def_loaders", "parts_funcs",
                                    "train_pipe", "test_pipe", "trainer",
                                    "log_files", "log_start", "train",
                                    "train_return", "log_end",
                                    "print_finished">>] >>

\* Mutant: the variables are initialised after the weights were restored.
Cells_InitAfterRestore(p) ==
  IF p = "recon"
    THEN [ReconCells EXCEPT ![10].stmts =
            <<"build_graph", "restore", "init_variables", "ins_sampler",
              "run_sampler", "burn_slice">>]
    ELSE TrainCells

Cells(p) == IF p = "recon" THEN ReconCells ELSE TrainCells

\* Where a statement sits: its cell and its place in the cell.
CellOf(p, l) ==
  CHOOSE c \in 1..Len(Cells(p)) :
    \E s \in 1..Len(Cells(p)[c].stmts) : Cells(p)[c].stmts[s] = l

PlaceOf(p, l) ==
  CHOOSE s \in 1..Len(Cells(p)[CellOf(p, l)].stmts) :
    Cells(p)[CellOf(p, l)].stmts[s] = l

IsLastOfCell(p, l) == PlaceOf(p, l) = Len(Cells(p)[CellOf(p, l)].stmts)

\* The statement that follows l when control falls through; "end" after the
\* last statement of the last cell.
Succ(p, l) ==
  IF ~IsLastOfCell(p, l)
    THEN Cells(p)[CellOf(p, l)].stmts[PlaceOf(p, l) + 1]
    ELSE IF CellOf(p, l) < Len(Cells(p))
           THEN Cells(p)[CellOf(p, l) + 1].stmts[1]
           ELSE "end"

First(p) == Cells(p)[1].stmts[1]

\* ------------------------------------------------------------------ state
VARIABLES
  status,        \* [Procs -> "off" | "run" | "done" | "aborted"]
  pc,            \* [Procs -> the statement about to execute]
  cwd,           \* [Procs -> the bash script's working directory]
  cellLog,       \* [Procs -> the statements executed in the current cell]
  trace,         \* [Procs -> the milestones completed, in order]
  fs,            \* the working directory: path -> who wrote it, or "absent"
  reads,         \* [Procs -> the (path, writer) pairs the process has read]
  environ,       \* os.environ of the reconstruction kernel
  files,         \* the input files as they are on disk: the configuration
                 \* files' mappings and the k-space's shape
  config,        \* [Procs -> the loaded configuration, NoConfig before]
  model_config,  \* the model's training configuration (reconstruction)
  simu,          \* prepare_simu's frame: its arguments, locals and calls
  tf,            \* the TensorFlow session: the weights in effect
  sampler,       \* posterior sampler: construction, N, the weights it ran on
  images,        \* the sampler's outputs, then the retained ones
  metrics,       \* the results cell: estimates, loop counter, psnrs, ssims
  plots,         \* what has been plotted
  train          \* the training cell: pipes, trainer, log, printed messages

ctl  == <<status, pc, cwd, cellLog, trace>>
disk == <<fs, reads, environ>>
data == <<files, config, model_config, simu, tf, sampler, images, metrics,
          plots, train>>
vars == <<status, pc, cwd, cellLog, trace, fs, reads, environ, files, config,
          model_config, simu, tf, sampler, images, metrics, plots, train>>

At(p, l) == status[p] = "run" /\ pc[p] = l

\* ------------------------------------------------------------ control flow
LogEntry(p, ok) == [stmt |-> pc[p], ok |-> ok]

\* The log of the cell being run: a cell's first statement starts it afresh.
Logged(p, ok) ==
  [cellLog EXCEPT ![p] =
     Append(IF PlaceOf(p, pc[p]) = 1 THEN <<>> ELSE @, LogEntry(p, ok))]

\* The steps of the reconstruction whose order the run keeps.
Milestones == {"load_config", "load_model_config", "ps_return", "bind_AHA",
               "build_graph", "init_variables", "restore", "run_sampler",
               "normalize", "to_array", "plot_curves"}

Traced(p, ok) ==
  [trace EXCEPT ![p] = IF ok /\ pc[p] \in Milestones THEN Append(@, pc[p])
                                                      ELSE @]

\* Control goes to `target` ("end": the notebook is through).
GoTo(p, target) ==
  IF target = "end"
    THEN /\ status' = [status EXCEPT ![p] = "done"]
         /\ pc' = pc
    ELSE /\ status' = status
         /\ pc' = [pc EXCEPT ![p] = target]

\* An uncaught exception: the cell stops there and the run with it.
Abort(p) ==
  /\ status' = [status EXCEPT ![p] = "aborted"]
  /\ pc' = pc

\* A Python statement has returned (ok) and control goes to `target`, or has
\* raised.
PyCtl(p, ok, target) ==
  /\ cellLog' = Logged(p, ok)
  /\ trace' = Traced(p, ok)
  /\ cwd' = cwd
  /\ IF ok THEN GoTo(p, target) ELSE Abort(p)

\* A Python statement that falls through to the next one.
PyStep(p, ok) == PyCtl(p, ok, Succ(p, pc[p]))

\* Mutant: the script runs under set -e and stops at the first command that
\* fails.
BashCtl_Errexit(p, ok, dir) ==
  /\ cellLog' = Logged(p, ok)
  /\ trace' = trace
  /\ cwd' = [cwd EXCEPT ![p] = IF IsLastOfCell(p, pc[p]) THEN "." ELSE dir]
  /\ IF ~ok THEN Abort(p) ELSE GoTo(p, Succ(p, pc[p]))

\* A command of a %%bash cell has exited (ok: with status 0), leaving the
\* script in directory `dir`.  bash runs the next command whatever the
\* status; after the last one the script's status is the cell's: non-zero
\* raises CalledProcessError.
BashCtl(p, ok, dir) ==
  /\ cellLog' = Logged(p, ok)
  /\ trace' = trace
  /\ cwd' = [cwd EXCEPT ![p] = IF IsLastOfCell(p, pc[p]) THEN "." ELSE dir]
  /\ IF IsLastOfCell(p, pc[p]) /\ ~ok
       THEN Abort(p)
       ELSE GoTo(p, Succ(p, pc[p]))

\* ------------------------------------------------------------ file system
Paths == {"bart", "bart/bart", "spreco", "spreco/setup.py", "spreco/scripts",
          "spreco/data", "pre-trained.tar", "full_kspace.npz",
          "brain_mnist.tar", "spreco/data/pre-trained",
          "spreco/data/full_kspace.npz", "spreco/data/brain_mnist",
          "site-packages/spreco"}

Exists(path) == fs[path] # "absent"

\* fs with the paths of `written` written by p, and the paths of `removed`
\* gone.
Written(f, p, written, removed) ==
  [q \in Paths |-> IF q \in removed THEN "absent"
                   ELSE IF q \in written THEN p ELSE f[q]]

\* reads with the existing paths among `ps` read by p.
Read(p, ps) ==
  [reads EXCEPT ![p] = @ \cup {<<q, fs[q]>> : q \in {r \in ps : Exists(r)}}]

\* What a git clone creates.
Checkout(dir) ==
  IF dir = "bart" THEN {"bart"}
  ELSE {"spreco", "spreco/setup.py", "spreco/scripts"}

\* ------------------------------------------------------------ %%bash cells
\* apt-get install -y ... &> /dev/null
AptGet(p) ==
  /\ At(p, "apt_get")
  /\ \E ok \in BOOLEAN : BashCtl(p, ok, cwd[p])
  /\ UNCHANGED <<disk, data>>

\* [ -d /content/bart ] && rm -r /content/bart
RmOldBart(p) ==
  /\ At(p, "rm_old_bart")
  /\ BashCtl(p, Exists("bart"), cwd[p])
  /\ fs' = Written(fs, p, {}, {"bart", "bart/bart"})
  /\ UNCHANGED <<reads, environ, data>>

CloneDir(l) == IF l = "clone_bart" THEN "bart" ELSE "spreco"

\* git clone <url> [bart]: refuses a destination that exists; otherwise it
\* needs the network.
GitClone(p) ==
  /\ status[p] = "run" /\ pc[p] \in {"clone_bart", "clone_spreco"}
  /\ \E ok \in IF Exists(CloneDir(pc[p])) THEN {FALSE} ELSE BOOLEAN :
       /\ BashCtl(p, ok, cwd[p])
       /\ fs' = IF ok THEN Written(fs, p, Checkout(CloneDir(pc[p])), {})
                      ELSE fs
  /\ UNCHANGED <<reads, environ, data>>

\* [ -d "bart" ] && echo "BART was downloaded successfully."
EchoBart(p) ==
  /\ At(p, "echo_bart")
  /\ BashCtl(p, Exists("bart"), cwd[p])
  /\ UNCHANGED <<disk, data>>

CdDir(l) == IF l = "cd_bart" THEN "bart" ELSE "spreco"

\* cd bart / cd spreco: fails, and stays, when the directory is not there.
Cd(p) ==
  /\ status[p] = "run" /\ pc[p] \in {"cd_bart", "cd_spreco"}
  /\ BashCtl(p, Exists(CdDir(pc[p])),
             IF Exists(CdDir(pc[p])) THEN CdDir(pc[p]) ELSE cwd[p])
  /\ reads' = Read(p, {CdDir(pc[p])})
  /\ UNCHANGED <<fs, environ, data>>

\* make &> /dev/null: builds the bart binary in the checkout.
Make(p) ==
  /\ At(p, "make_bart")
  /\ \E ok \in IF cwd[p] = "bart" THEN BOOLEAN ELSE {FALSE} :
       /\ BashCtl(p, ok, cwd[p])
       /\ fs' = IF ok THEN Written(fs, p, {"bart/bart"}, {}) ELSE fs
  /\ reads' = IF cwd[p] = "bart" THEN Read(p, {"bart"}) ELSE reads
  /\ UNCHANGED <<environ, data>>

\* bart version: needs the binary on PATH.
BartVersion(p) ==
  /\ At(p, "bart_version")
  /\ BashCtl(p, environ.bart_on_path /\ Exists("bart/bart"), cwd[p])
  /\ reads' = IF environ.bart_on_path THEN Read(p, {"bart/bart"}) ELSE reads
  /\ UNCHANGED <<fs, environ, data>>

\* git checkout mrm_paper: works inside the checkout only.
GitCheckout(p) ==
  /\ At(p, "checkout")
  /\ BashCtl(p, cwd[p] = "spreco", cwd[p])
  /\ reads' = IF cwd[p] = "spreco" THEN Read(p, {"spreco"}) ELSE reads
  /\ UNCHANGED <<fs, environ, data>>

\* sed -i "s/.../.../g" setup.py: rewrites setup.py of the directory it runs
\* in.
Sed(p) ==
  /\ status[p] = "run" /\ pc[p] \in {"sed_tf", "sed_pillow", "sed_yaml"}
  /\ BashCtl(p, cwd[p] = "spreco", cwd[p])
  /\ reads' = IF cwd[p] = "spreco" THEN Read(p, {"spreco/setup.py"})
                                   ELSE reads
  /\ fs' = IF cwd[p] = "spreco"
             THEN Written(fs, p, {"spreco/setup.py"}, {}) ELSE fs
  /\ UNCHANGED <<environ, data>>

\* pip install . : installs the package of the directory it runs in.
PipInstall(p) ==
  /\ At(p, "pip_install")
  /\ \E ok \in IF cwd[p] = "spreco" THEN BOOLEAN ELSE {FALSE} :
       /\ BashCtl(p, ok, cwd[p])
       /\ fs' = IF ok THEN Written(fs, p, {"site-packages/spreco"}, {})
                      ELSE fs
  /\ reads' = IF cwd[p] = "spreco"
                THEN Read(p, {"spreco", "spreco/setup.py"}) ELSE reads
  /\ UNCHANGED <<environ, data>>

WgetFile(l) ==
  CASE l = "wget_pretrained" -> "pre-trained.tar"
    [] l = "wget_kspace"     -> "full_kspace.npz"
    [] OTHER                 -> "brain_mnist.tar"

\* wget -q <url>: needs the network; a file of that name already there is
\* kept (the download goes to <name>.1).
Wget(p) ==
  /\ status[p] = "run"
  /\ pc[p] \in {"wget_pretrained", "wget_kspace", "wget_brain"}
  /\ \E ok \in BOOLEAN :
       /\ BashCtl(p, ok, cwd[p])
       /\ fs' = IF ok /\ ~Exists(WgetFile(pc[p]))
                  THEN Written(fs, p, {WgetFile(pc[p])}, {}) ELSE fs
  /\ UNCHANGED <<reads, environ, data>>

\* mkdir spreco/data: fails when it exists or spreco does not.
Mkdir(p) ==
  /\ At(p, "mkdir_data")
  /\ BashCtl(p, Exists("spreco") /\ ~Exists("spreco/data"), cwd[p])
  /\ fs' = IF Exists("spreco") /\ ~Exists("spreco/data")
             THEN Written(fs, p, {"spreco/data"}, {}) ELSE fs
  /\ UNCHANGED <<reads, environ, data>>

\* Mutant: the tar line of the training notebook, pasted as it is.
TarFile_Pasted(l) == "brain_mnist.tar"

TarFile(l) == IF l = "tar_pretrained" THEN "pre-trained.tar"
                                      ELSE "brain_mnist.tar"
TarOut(l) == IF l = "tar_pretrained" THEN "spreco/data/pre-trained"
                                     ELSE "spreco/data/brain_mnist"

\* tar xf <file> -C spreco/data
Tar(p) ==
  /\ status[p] = "run" /\ pc[p] \in {"tar_pretrained", "tar_brain"}
  /\ BashCtl(p, Exists(TarFile(pc[p])) /\ Exists("spreco/data"), cwd[p])
  /\ reads' = IF Exists("spreco/data") THEN Read(p, {TarFile(pc[p])})
                                       ELSE reads
  /\ fs' = IF Exists(TarFile(pc[p])) /\ Exists("spreco/data")
             THEN Written(fs, p, {TarOut(pc[p])}, {}) ELSE fs
  /\ UNCHANGED <<environ, data>>

\* mv full_kspace.npz spreco/data
Mv(p) ==
  /\ At(p, "mv_kspace")
  /\ BashCtl(p, Exists("full_kspace.npz") /\ Exists("spreco/data"), cwd[p])
  /\ fs' = IF Exists("full_kspace.npz") /\ Exists("spreco/data")
             THEN Written(fs, p, {"spreco/data/full_kspace.npz"},
                          {"full_kspace.npz"})
             ELSE fs
  /\ UNCHANGED <<reads, environ, data>>

BashCmd(p) ==
  \/ AptGet(p) \/ RmOldBart(p) \/ GitClone(p) \/ EchoBart(p) \/ Cd(p)
  \/ Make(p) \/ BartVersion(p) \/ GitCheckout(p) \/ Sed(p) \/ PipInstall(p)
  \/ Wget(p) \/ Mkdir(p) \/ Tar(p) \/ Mv(p)

\* ---------------------------------------------------------- configuration
\* A non-integer of the YAML file is the pair <<numerator, denominator>>.
\* burn_t is drawn from the quarters, which float arithmetic multiplies by
\* a small integer exactly.
BurnTs == {<<0, 4>>, <<1, 4>>, <<2, 4>>, <<4, 4>>}

NrSamplesSet == {n \in 1..MaxSamples : n \in {1, 4, 10} \/ n = MaxSamples}

\* recon_config.yaml, the keys of the notebook's example.
ReconConfigs ==
  [cal : {20}, fx : {<<3, 2>>}, fy : {<<3, 2>>}, poisson : BOOLEAN,
   sampling_rate : {<<1, 5>>}, s_stepsize : {25}, st : {30},
   c_steps : 1..MaxCSteps, nr_samples : NrSamplesSet, burn_in : BOOLEAN,
   burn_t : BurnTs, target_snr : {1}, model_folder : {"pre-trained"},
   model_name : {"model"}, ksp_path : {"full_kspace.npz"}]

\* <model_folder>/config.yaml: the training configuration of the prior.
ModelConfigs == [seed : {1234}, input_shape : {<<256, 256, 2>>}]

\* input_shape of train_config.yaml: the example's, and a smaller one.
InputShapes == {<<256, 256, 2>>, <<128, 128, 2>>}

\* train_config.yaml, the keys the training cell reads.
TrainConfigs ==
  [batch_size : {2}, nr_gpu : {2}, input_shape : InputShapes,
   nr_levels : 1..MaxLevels, train_data_path : {"brain_mnist/train"},
   test_data_path : {"brain_mnist/test"}, pattern : {"*.npz"},
   log_folder : {"logs"}]

\* The shape (nx, ny) of the k-space file.
KspaceShapes == {[nx |-> a, ny |-> b] : a \in 2..MaxDim, b \in 2..MaxDim}

NoConfig == [loaded |-> FALSE]
None == [src |-> "None"]

\* ------------------------------------------------------ Python: the setup
\* %env TOOLBOX_PATH=/content/bart
EnvToolbox(p) ==
  /\ At(p, "env_toolbox")
  /\ PyStep(p, TRUE)
  /\ environ' = [environ EXCEPT !.TOOLBOX_PATH = TRUE]
  /\ UNCHANGED <<fs, reads, data>>

\* import os; os.environ['PATH'] = os.environ['TOOLBOX_PATH'] + ":" + ...
SetPath(p) ==
  /\ At(p, "set_path")
  /\ PyStep(p, environ.TOOLBOX_PATH)
  /\ environ' = [environ EXCEPT !.bart_on_path = environ.TOOLBOX_PATH]
  /\ UNCHANGED <<fs, reads, data>>

\* from spreco... import ...: the installed package is read.
ImportSpreco(p) ==
  /\ At(p, "import_spreco")
  /\ \E ok \in IF Exists("site-packages/spreco") THEN BOOLEAN ELSE {FALSE} :
       PyStep(p, ok)
  /\ reads' = Read(p, {"site-packages/spreco"})
  /\ UNCHANGED <<fs, environ, data>>

\* Statements that bind a name and cannot raise.
Bindings == {"config_path", "model_path", "seed_1", "seed_2",
             "def_prepare_simu", "bind_AHA", "def_loaders", "parts_funcs"}

\* Statements that call into a library, with no effect the model keeps: they
\* return or raise.
Calls == {"import_libs", "normalize_zero_filled", "l1_recon", "normalize",
          "plot_setup", "plot_axes", "compare", "grid"}

\* The same inside prepare_simu: ecalib, mifft2, the rss sum, the
\* undersampling product, ecalib again, AT_cart.
PsCalls == {"ps_ecalib_1", "ps_mifft2", "ps_rss", "ps_und_ksp",
            "ps_ecalib_2", "ps_AT_cart"}

Binding(p) ==
  /\ status[p] = "run" /\ pc[p] \in Bindings
  /\ PyStep(p, TRUE)
  /\ UNCHANGED <<disk, data>>

Call(p) ==
  /\ status[p] = "run" /\ pc[p] \in Calls
  /\ \E ok \in BOOLEAN : PyStep(p, ok)
  /\ UNCHANGED <<disk, data>>

PsCall(p) ==
  /\ status[p] = "run" /\ pc[p] \in PsCalls
  /\ \E ok \in BOOLEAN : PyStep(p, ok)
  /\ UNCHANGED <<disk, data>>

\* config = utils.load_config(config_path): the file of the spreco checkout.
LoadConfig(p) ==
  /\ At(p, "load_config")
  /\ \E ok \in IF Exists("spreco/scripts") THEN BOOLEAN ELSE {FALSE} :
       /\ PyStep(p, ok)
       /\ config' = IF ok THEN [config EXCEPT ![p] = files[p]] ELSE config
  /\ reads' = Read(p, {"spreco/scripts"})
  /\ UNCHANGED <<fs, environ, files, model_config, simu, tf, sampler, images,
                 metrics, plots, train>>

\* model_config = utils.load_config(config['model_folder']+'/config.yaml')
LoadModelConfig(p) ==
  /\ At(p, "load_model_config")
  /\ \E ok \in IF Exists("spreco/data/pre-trained") THEN BOOLEAN
                                                    ELSE {FALSE} :
       /\ PyStep(p, ok)
       /\ model_config' = IF ok THEN files.model ELSE model_config
  /\ reads' = Read(p, {"spreco/data/pre-trained"})
  /\ UNCHANGED <<fs, environ, files, config, simu, tf, sampler, images,
                 metrics, plots, train>>

\* ------------------------------------------------- Python: prepare_simu
NoSimu == [maskArg |-> None, mask |-> None, keys |-> {}, calls |-> <<>>,
           nx |-> 0, ny |-> 0, returned |-> FALSE]

\* zero_filled, mask, ... = prepare_simu(config): mask takes its default.
CallPrepareSimu(p) ==
  /\ At(p, "call_prepare_simu")
  /\ PyStep(p, TRUE)
  /\ simu' = [NoSimu EXCEPT !.maskArg = None]
  /\ UNCHANGED <<disk, files, config, model_config, tf, sampler, images,
                 metrics, plots, train>>

\* kspace = np.squeeze(np.load(config['ksp_path'])['kspace']);
\* nx, ny, _ = kspace.shape
PsLoadKspace(p) ==
  /\ At(p, "ps_load_kspace")
  /\ \E ok \in IF Exists("spreco/data/full_kspace.npz") THEN BOOLEAN
                                                        ELSE {FALSE} :
       /\ PyStep(p, ok)
       /\ simu' = [simu EXCEPT !.keys = @ \cup {"ksp_path"},
                               !.nx = IF ok THEN files.kspace.nx ELSE @,
                               !.ny = IF ok THEN files.kspace.ny ELSE @]
  /\ reads' = Read(p, {"spreco/data/full_kspace.npz"})
  /\ UNCHANGED <<fs, environ, files, config, model_config, tf, sampler,
                 images, metrics, plots, train>>

\* sampling_pattern.gen_mask_2D(nx, ny, center_r = config['cal'],
\*                              undersampling = config['sampling_rate'])
GenMask2D(nx, ny, cfg) ==
  [fn |-> "gen_mask_2D", nx |-> nx, ny |-> ny, center_r |-> cfg.cal,
   undersampling |-> cfg.sampling_rate]

\* utils.bart(1, 'poisson -Y %d -Z %d -y %f -z %f -s 1234 -v -C %d'
\*               % (nx, ny, config['fx'], config['fy'], config['cal']))
BartPoisson(nx, ny, cfg) ==
  [fn |-> "bart poisson", Y |-> nx, Z |-> ny, y |-> cfg.fx, z |-> cfg.fy,
   s |-> 1234, C |-> cfg.cal]

\* Mutant: the test is `if config['poisson']`, the branches change places.
MaskCalls_Swapped(maskArg, nx, ny, cfg) ==
  IF maskArg # None THEN <<>>
  ELSE IF cfg.poisson THEN <<GenMask2D(nx, ny, cfg)>>
  ELSE <<BartPoisson(nx, ny, cfg)>>

\* The generator prepare_simu invokes for the mask, as a sequence: none when
\* a mask was passed in.
MaskCalls(maskArg, nx, ny, cfg) ==
  IF maskArg # None THEN <<>>
  ELSE IF ~cfg.poisson THEN <<GenMask2D(nx, ny, cfg)>>
  ELSE <<BartPoisson(nx, ny, cfg)>>

\* The keys of config the mask statement reads.
MaskKeys(maskArg, cfg) ==
  IF maskArg # None THEN {}
  ELSE IF ~cfg.poisson THEN {"poisson", "cal", "sampling_rate"}
  ELSE {"poisson", "fx", "fy", "cal"}

\* if mask is None: ... : the mask the function goes on with.
PsMask(p) ==
  /\ At(p, "ps_mask")
  /\ \E ok \in IF simu.maskArg # None THEN {TRUE} ELSE BOOLEAN :
       /\ PyStep(p, ok)
       /\ simu' = [simu EXCEPT
            !.keys = @ \cup MaskKeys(simu.maskArg, config[p]),
            !.calls = @ \o MaskCalls(simu.maskArg, simu.nx, simu.ny,
                                     config[p]),
            !.mask = IF simu.maskArg # None THEN simu.maskArg
                     ELSE IF ok
                       THEN [src |-> MaskCalls(simu.maskArg, simu.nx,
                                               simu.ny, config[p])[1]]
                       ELSE @]
  /\ UNCHANGED <<disk, files, config, model_config, tf, sampler, images,
                 metrics, plots, train>>

\* return x_, mask, coilsen, (nx, ny), rss, und_ksp
PsReturn(p) ==
  /\ At(p, "ps_return")
  /\ PyStep(p, TRUE)
  /\ simu' = [simu EXCEPT !.returned = TRUE]
  /\ UNCHANGED <<disk, files, config, model_config, tf, sampler, images,
                 metrics, plots, train>>

\* ------------------------------------------- Python: network and sampler
\* x, t = placeholders; ins_sde = sde(model_config); ins_sde.net.forward;
\* all_params; saver = tf.train.Saver(); sess = tf.Session()
BuildGraph(p) ==
  /\ At(p, "build_graph")
  /\ \E ok \in BOOLEAN :
       /\ PyStep(p, ok)
       /\ tf' = IF ok THEN [tf EXCEPT !.weights = "uninitialised"] ELSE tf
  /\ UNCHANGED <<disk, files, config, model_config, simu, sampler, images,
                 metrics, plots, train>>

\* sess.run(tf.global_variables_initializer()): every variable of the graph
\* gets its initial value, whatever it held.
InitVariables(p) ==
  /\ At(p, "init_variables")
  /\ \E ok \in IF tf.weights = "none" THEN {FALSE} ELSE BOOLEAN :
       /\ PyStep(p, ok)
       /\ tf' = IF ok THEN [tf EXCEPT !.weights = "initialised"] ELSE tf
  /\ UNCHANGED <<disk, files, config, model_config, simu, sampler, images,
                 metrics, plots, train>>

\* saver.restore(sess, os.path.join(config['model_folder'],
\*                                  config['model_name']))
Restore(p) ==
  /\ At(p, "restore")
  /\ \E ok \in IF tf.weights = "none" \/ ~Exists("spreco/data/pre-trained")
                 THEN {FALSE} ELSE BOOLEAN :
       /\ PyStep(p, ok)
       /\ tf' = IF ok THEN [tf EXCEPT !.weights = "restored"] ELSE tf
  /\ reads' = Read(p, {"spreco/data/pre-trained"})
  /\ UNCHANGED <<fs, environ, files, config, model_config, simu, sampler,
                 images, metrics, plots, train>>

\* ins_sde.N, an attribute the library sets.
SdeNs == {4, 100}

\* The keys the construction subscripts: config['c_steps'], ... A key that
\* is not in the mapping raises KeyError.
CtorKeys == {"c_steps", "target_snr", "nr_samples", "burn_in", "burn_t"}

\* The keys the arguments of conditional_ancestral_sampler subscript.
RunKeys == {"s_stepsize", "st"}

\* The keys read as `d if 'k' not in config.keys() else config['k']`, with
\* their d.
OptionalKeys == {"ode", "ext_iter", "disable_z", "use_pixelcnn"}
OptionDefaults == [ode |-> FALSE, ext_iter |-> 0, disable_z |-> FALSE,
                   use_pixelcnn |-> FALSE]

HasKeys(cfg, ks) == ks \subseteq DOMAIN cfg

\* Mutant: the default is passed whatever the configuration holds.
Option_DefaultOnly(cfg, k) == OptionDefaults[k]

\* d if 'k' not in config.keys() else config['k']
Option(cfg, k) == IF k \notin DOMAIN cfg THEN OptionDefaults[k] ELSE cfg[k]

\* Mutant: the optional key is filled in with config.setdefault('ode', False).
InsSampler_SetDefault(p) ==
  /\ At(p, "ins_sampler")
  /\ \E ok \in IF HasKeys(config[p], CtorKeys) THEN BOOLEAN ELSE {FALSE},
        n \in SdeNs :
       /\ PyStep(p, ok)
       /\ sampler' = IF ok
            THEN [sampler EXCEPT
                    !.built = TRUE, !.N = n,
                    !.steps = config[p].c_steps,
                    !.target_snr = config[p].target_snr,
                    !.nr_samples = config[p].nr_samples,
                    !.burn_in = config[p].burn_in,
                    !.burn_t = config[p].burn_t,
                    !.options = [k \in OptionalKeys |->
                                   Option(config[p], k)]]
            ELSE [sampler EXCEPT !.error =
                    IF HasKeys(config[p], CtorKeys) THEN "other"
                                                    ELSE "KeyError"]
  /\ config' = [config EXCEPT ![p] =
       [k \in DOMAIN config[p] \cup {"ode"} |->
          IF k = "ode" THEN FALSE ELSE config[p][k]]]
  /\ UNCHANGED <<disk, files, model_config, simu, tf, images, metrics, plots,
                 train>>

\* ins_sampler = posterior_sampler(ins_sde, steps = config['c_steps'], ...)
InsSampler(p) ==
  /\ At(p, "ins_sampler")
  /\ \E ok \in IF HasKeys(config[p], CtorKeys) THEN BOOLEAN ELSE {FALSE},
        n \in SdeNs :
       /\ PyStep(p, ok)
       /\ sampler' = IF ok
            THEN [sampler EXCEPT
                    !.built = TRUE, !.N = n,
                    !.steps = config[p].c_steps,
                    !.target_snr = config[p].target_snr,
                    !.nr_samples = config[p].nr_samples,
                    !.burn_in = config[p].burn_in,
                    !.burn_t = config[p].burn_t,
                    !.options = [k \in OptionalKeys |->
                                   Option(config[p], k)]]
            ELSE [sampler EXCEPT !.error =
                    IF HasKeys(config[p], CtorKeys) THEN "other"
                                                    ELSE "KeyError"]
  /\ UNCHANGED <<disk, files, config, model_config, simu, tf, images,
                 metrics, plots, train>>

\* The list 1, ..., n: the sampler's outputs, named by their iteration.
Iota(n) == [k \in 1..n |-> k]

\* images = ins_sampler.conditional_ancestral_sampler(x, t, sess, AHA, ...)
\* The arguments are evaluated first: config['s_stepsize'], config['st'].
\* Then the sampler runs on the weights the session holds and returns one
\* entry per iteration it keeps.
RunSampler(p) ==
  /\ At(p, "run_sampler")
  /\ \E ok \in IF sampler.built /\ HasKeys(config[p], RunKeys)
                 THEN BOOLEAN ELSE {FALSE},
        len \in 1..MaxImages :
       /\ PyStep(p, ok)
       /\ sampler' = IF sampler.built /\ HasKeys(config[p], RunKeys)
                       THEN [sampler EXCEPT
                               !.ranOn = tf.weights,
                               !.s_stepsize = config[p].s_stepsize,
                               !.st = config[p].st,
                               !.out = IF ok THEN Iota(len) ELSE @,
                               !.error = IF ok THEN @ ELSE "other"]
                       ELSE [sampler EXCEPT !.error =
                               IF sampler.built THEN "KeyError"
                                                ELSE "NameError"]
       /\ images' = IF ok THEN Iota(len) ELSE images
  /\ UNCHANGED <<disk, files, config, model_config, simu, tf, metrics, plots,
                 train>>

\* int(x) of a non-negative quotient a/b.
IntOf(a, b) == a \div b

\* idx = int(ins_sampler.sde.N*config['burn_t']*config['c_steps'])
\*       - config['c_steps']
BurnIdx(n, cfg) ==
  IntOf(n * cfg.burn_t[1] * cfg.c_steps, cfg.burn_t[2]) - cfg.c_steps

\* Python's s[start:], start of either sign.
PyFrom(s, start) ==
  LET n == Len(s)
      from == IF start < 0 THEN (IF n + start < 0 THEN 0 ELSE n + start)
              ELSE (IF start > n THEN n ELSE start)
  IN  SubSeq(s, from + 1, n)

\* The images the notebook keeps of the sampler's outputs.
Retained(imgs, n, cfg) ==
  IF cfg.burn_in THEN PyFrom(imgs, 0 - BurnIdx(n, cfg)) ELSE imgs

\* if config['burn_in']: images = utils.float2cplx(np.array(images[-idx:]))
\* else: images = np.array(images); images = images[...,0]+1.0j*images[...,1]
\* Indexing the last axis of an empty array raises.
BurnSlice(p) ==
  /\ At(p, "burn_slice")
  /\ PyStep(p, Retained(images, sampler.N, config[p]) # <<>>)
  /\ images' = IF Retained(images, sampler.N, config[p]) # <<>>
                 THEN Retained(images, sampler.N, config[p]) ELSE images
  /\ UNCHANGED <<disk, files, config, model_config, simu, tf, sampler,
                 metrics, plots, train>>

\* --------------------------------------------- Python: the results cell
\* The sample counts the curves are labelled with.
PlotLabels == <<1, 2, 4, 8, 10>>
Labels == {PlotLabels[k] : k \in 1..Len(PlotLabels)}

\* The indices of Python's a[lo:hi] on an axis of length n.
PySlice(lo, hi, n) == {k \in 0..(n - 1) : lo <= k /\ k < hi}

\* normalized_expectation_<c>: the samples (second axis of normalized_rets,
\* of length n) it takes the mean of.
\*   _1  normalized_rets[:, 0]       _2  mean of normalized_rets[:, 0:2]
\*   _4  mean of [:, 1:4]            _8  mean of [:, 1:8]
\*   _10 mean of normalized_rets
ExpectationOf(c, n) ==
  CASE c = 1  -> {0}
    [] c = 2  -> PySlice(0, 2, n)
    [] c = 4  -> PySlice(1, 4, n)
    [] c = 8  -> PySlice(1, 8, n)
    [] OTHER  -> PySlice(0, n, n)

NoMetrics == [total_steps |-> 0, est |-> [c \in Labels |-> {}], i |-> 0 - 1,
              completed |-> 0, tmp_psnr |-> <<>>, tmp_ssim |-> <<>>,
              psnrs |-> <<>>, ssims |-> <<>>, listed |-> FALSE]

\* total_steps = mag_rets.shape[0]; step_size = 1
TotalSteps(p) ==
  /\ At(p, "total_steps")
  /\ PyStep(p, TRUE)
  /\ metrics' = [metrics EXCEPT !.total_steps = Len(images)]
  /\ UNCHANGED <<disk, files, config, model_config, simu, tf, sampler,
                 images, plots, train>>

\* normalized_expectation_1 ... normalized_expectation_10
Expectations(p) ==
  /\ At(p, "expectations")
  /\ PyStep(p, TRUE)
  /\ metrics' = [metrics EXCEPT
       !.est = [c \in Labels |-> ExpectationOf(c, sampler.nr_samples)]]
  /\ UNCHANGED <<disk, files, config, model_config, simu, tf, sampler,
                 images, plots, train>>

\* psnrs=[]; ssims=[]
InitLists(p) ==
  /\ At(p, "init_lists")
  /\ PyStep(p, TRUE)
  /\ metrics' = [metrics EXCEPT !.psnrs = <<>>, !.ssims = <<>>,
                                !.listed = TRUE]
  /\ UNCHANGED <<disk, files, config, model_config, simu, tf, sampler,
                 images, plots, train>>

\* Mutant: the loop stops one iteration short, range(total_steps - 1).
LoopHead_OneShort(p) ==
  /\ At(p, "loop_head")
  /\ PyCtl(p, TRUE, IF metrics.i + 1 < metrics.total_steps - 1
                      THEN Succ(p, pc[p]) ELSE "to_array")
  /\ metrics' = IF metrics.i + 1 < metrics.total_steps - 1
                  THEN [metrics EXCEPT !.i = @ + 1] ELSE metrics
  /\ UNCHANGED <<disk, files, config, model_config, simu, tf, sampler,
                 images, plots, train>>

\* for i in range(int(total_steps/step_size)):
LoopHead(p) ==
  /\ At(p, "loop_head")
  /\ PyCtl(p, TRUE, IF metrics.i + 1 < metrics.total_steps
                      THEN Succ(p, pc[p]) ELSE "to_array")
  /\ metrics' = IF metrics.i + 1 < metrics.total_steps
                  THEN [metrics EXCEPT !.i = @ + 1] ELSE metrics
  /\ UNCHANGED <<disk, files, config, model_config, simu, tf, sampler,
                 images, plots, train>>

\* tmp_psnr=[]; tmp_ssim=[]
TmpInit(p) ==
  /\ At(p, "tmp_init")
  /\ PyStep(p, TRUE)
  /\ metrics' = [metrics EXCEPT !.tmp_psnr = <<>>, !.tmp_ssim = <<>>]
  /\ UNCHANGED <<disk, files, config, model_config, simu, tf, sampler,
                 images, plots, train>>

MetricStmts == {"psnr_1", "ssim_1", "psnr_2", "ssim_2", "psnr_4", "ssim_4",
                "psnr_8", "ssim_8", "psnr_10", "ssim_10"}

EstOf(l) ==
  CASE l \in {"psnr_1", "ssim_1"} -> 1
    [] l \in {"psnr_2", "ssim_2"} -> 2
    [] l \in {"psnr_4", "ssim_4"} -> 4
    [] l \in {"psnr_8", "ssim_8"} -> 8
    [] OTHER                      -> 10

IsPsnr(l) == l \in {"psnr_1", "psnr_2", "psnr_4", "psnr_8", "psnr_10"}

\* utils.psnr(normalized_expectation_<c>[i], normalized_rss), and ssim: the
\* value, named by what it was computed from.
MetricValue(l, m) ==
  [fn |-> IF IsPsnr(l) THEN "psnr" ELSE "ssim", est |-> EstOf(l),
   samples |-> m.est[EstOf(l)], iter |-> m.i, ref |-> "normalized_rss"]

\* tmp_psnr.append(utils.psnr(...)) / tmp_ssim.append(utils.ssim(...))
Metric(p) ==
  /\ status[p] = "run" /\ pc[p] \in MetricStmts
  /\ \E ok \in BOOLEAN :
       /\ PyStep(p, ok)
       /\ metrics' =
            IF ~ok THEN metrics
            ELSE IF IsPsnr(pc[p])
              THEN [metrics EXCEPT
                      !.tmp_psnr = Append(@, MetricValue(pc[p], metrics))]
              ELSE [metrics EXCEPT
                      !.tmp_ssim = Append(@, MetricValue(pc[p], metrics))]
  /\ UNCHANGED <<disk, files, config, model_config, simu, tf, sampler,
                 images, plots, train>>

\* psnrs.append(tmp_psnr)
AppendPsnrs(p) ==
  /\ At(p, "append_psnrs")
  /\ PyStep(p, TRUE)
  /\ metrics' = [metrics EXCEPT !.psnrs = Append(@, metrics.tmp_psnr)]
  /\ UNCHANGED <<disk, files, config, model_config, simu, tf, sampler,
                 images, plots, train>>

\* ssims.append(tmp_ssim): the end of the loop body.
AppendSsims(p) ==
  /\ At(p, "append_ssims")
  /\ PyCtl(p, TRUE, "loop_head")
  /\ metrics' = [metrics EXCEPT !.ssims = Append(@, metrics.tmp_ssim),
                                !.completed = @ + 1]
  /\ UNCHANGED <<disk, files, config, model_config, simu, tf, sampler,
                 images, plots, train>>

\* psnrs = np.array(psnrs); ssims = np.array(ssims)
ToArray(p) ==
  /\ At(p, "to_array")
  /\ PyStep(p, TRUE)
  /\ UNCHANGED <<disk, data>>

\* m[:, k-1]
Column(m, k) == [r \in 1..Len(m) |-> m[r][k]]

\* for i,c in enumerate([1,2,4,8,10]):
\*     ax1.plot(psnrs[:,i], label="{} samples".format(c)); ax2.plot(ssims...)
PlotCurves(p) ==
  /\ At(p, "plot_curves")
  /\ \E ok \in BOOLEAN :
       /\ PyStep(p, ok)
       /\ plots' = IF ok
            THEN [plots EXCEPT !.curves =
                    [k \in 1..Len(PlotLabels) |->
                       [label |-> PlotLabels[k],
                        psnr |-> Column(metrics.psnrs, k),
                        ssim |-> Column(metrics.ssims, k)]]]
            ELSE plots
  /\ UNCHANGED <<disk, files, config, model_config, simu, tf, sampler,
                 images, metrics, train>>

\* --------------------------------------------- Python: the sample grid
GridStride == 35    \* normalized_rets[::35,...]
GridSize   == 10    \* plt.subplots(10, 10, ...); range(10)

\* The grid cell: where it is (off, read, layout, done), the rows of
\* `samples`, the length of their sample axis, the loop's i and j, the
\* number of panels drawn and the exception raised.
NoGrid == [at |-> "off", samples |-> <<>>, cols |-> 0, i |-> 0, j |-> 0,
           drawn |-> 0, error |-> "none"]

NoPlots == [curves |-> <<>>, grid |-> NoGrid]

\* Python's s[::step]: the entries 0, step, 2*step, ... of s.
PyStride(s, step) ==
  [k \in 1..((Len(s) + step - 1) \div step) |-> s[(k - 1) * step + 1]]

\* samples = normalized_rets[::35,...]; fig, axss = plt.subplots(10, 10, ...)
\* normalized_rets has a row per retained image and nr_samples samples in
\* each row.
GridSlice(p) ==
  /\ At(p, "grid") /\ plots.grid.at = "off"
  /\ plots' = [plots EXCEPT !.grid =
                 [NoGrid EXCEPT !.at = "read",
                                !.samples = PyStride(images, GridStride),
                                !.cols = sampler.nr_samples]]
  /\ UNCHANGED <<ctl, disk, files, config, model_config, simu, tf, sampler,
                 images, metrics, train>>

\* samples[i, j] is inside the array.
InBounds(g) == g.i < Len(g.samples) /\ g.j < g.cols

\* for i in range(10): for j in range(10):
\*     axplot(axss[i,j], samples[i,j], title=strs)
\* One pass of the inner loop's body: the subscript raises IndexError
\* outside the array; otherwise the panel is drawn, or the plot fails.
GridRead(p) ==
  /\ At(p, "grid") /\ plots.grid.at = "read"
  /\ \E ok \in IF InBounds(plots.grid) THEN BOOLEAN ELSE {FALSE} :
       IF ok
         THEN /\ plots' = [plots EXCEPT !.grid =
                   [@ EXCEPT
                      !.drawn = @ + 1,
                      !.j = IF @ + 1 < GridSize THEN @ + 1 ELSE 0,
                      !.i = IF plots.grid.j + 1 < GridSize THEN @ ELSE @ + 1,
                      !.at = IF plots.grid.j + 1 < GridSize
                                \/ plots.grid.i + 1 < GridSize
                               THEN "read" ELSE "layout"]]
              /\ UNCHANGED ctl
         ELSE /\ plots' = [plots EXCEPT !.grid.error =
                   IF InBounds(plots.grid) THEN "other" ELSE "IndexError"]
              /\ PyStep(p, FALSE)
  /\ UNCHANGED <<disk, files, config, model_config, simu, tf, sampler,
                 images, metrics, train>>

\* plt.tight_layout(pad=0): the last statement of the notebook.
GridLayout(p) ==
  /\ At(p, "grid") /\ plots.grid.at = "layout"
  /\ \E ok \in BOOLEAN :
       /\ PyStep(p, ok)
       /\ plots' = IF ok THEN [plots EXCEPT !.grid.at = "done"]
                         ELSE [plots EXCEPT !.grid.error = "other"]
  /\ UNCHANGED <<disk, files, config, model_config, simu, tf, sampler,
                 images, metrics, train>>

\* --------------------------------------------- Python: the training cell
NoTrain == [train_files |-> <<>>, test_files |-> <<>>, pipes |-> <<>>,
            go |-> FALSE, state |-> "not called", calls |-> 0,
            log |-> <<>>, printed |-> <<>>, h_out |-> <<>>,
            img_out |-> <<>>]

\* utils.find_files(path, pattern): the files of the extracted data set.
FoundFiles(l) ==
  IF ~Exists("spreco/data/brain_mnist") THEN <<>>
  ELSE IF l = "find_train" THEN <<"train_1.npz", "train_2.npz">>
  ELSE <<"test_1.npz">>

\* train_files = utils.find_files(config['train_data_path'], ...);
\* test_files likewise
FindFiles(p) ==
  /\ status[p] = "run" /\ pc[p] \in {"find_train", "find_test"}
  /\ PyStep(p, TRUE)
  /\ train' = IF pc[p] = "find_train"
                THEN [train EXCEPT !.train_files = FoundFiles(pc[p])]
                ELSE [train EXCEPT !.test_files = FoundFiles(pc[p])]
  /\ reads' = Read(p, {"spreco/data/brain_mnist"})
  /\ UNCHANGED <<fs, environ, files, config, model_config, simu, tf, sampler,
                 images, metrics, plots>>

\* parts_funcs = [[npz_loader, squeeze, normalize, slice_image], [randint]]
PartsFuncs == << <<"npz_loader", "squeeze", "normalize", "slice_image">>,
                 <<"randint">> >>

\* pipe.create_pipe(parts_funcs, files=..., batch_size=config['batch_size']
\*   *config['nr_gpu'], shape_info=[config['input_shape'], [1]],
\*   names=['inputs', 'h'])
CreatePipe(fls, cfg) ==
  [parts_funcs |-> PartsFuncs, files |-> fls,
   batch_size |-> cfg.batch_size * cfg.nr_gpu,
   shape_info |-> <<cfg.input_shape, <<1>> >>,
   names |-> <<"inputs", "h">>]

\* train_pipe = ... ; test_pipe = ...
MakePipe(p) ==
  /\ status[p] = "run" /\ pc[p] \in {"train_pipe", "test_pipe"}
  /\ \E ok \in BOOLEAN :
       /\ PyStep(p, ok)
       /\ train' = IF ok
            THEN [train EXCEPT !.pipes = Append(@,
                    CreatePipe(IF pc[p] = "train_pipe" THEN train.train_files
                                                       ELSE train.test_files,
                               config[p]))]
            ELSE train
  /\ UNCHANGED <<disk, files, config, model_config, simu, tf, sampler,
                 images, metrics, plots>>

\* The shapes of the 'rss' arrays stored in the .npz volumes.
VolumeShapes == {<<1, 320, 320>>, <<256, 256>>}

\* def npz_loader(x): return utils.npz_loader(x, 'rss')
\* On shapes: the shape of the stored array.
npz_loader(vol) == vol

\* def squeeze(x): return np.squeeze(x): the axes of length 1 are dropped.
squeeze(shape) == SelectSeq(shape, LAMBDA d : d # 1)

\* def normalize(x): return utils.normalize_with_max(x): the shape is kept.
normalize(shape) == shape

\* def slice_image(x): return utils.slice_image(x, [256, 256, 2])
\* The image is cut to the shape the call names.
slice_image(shape) == <<256, 256, 2>>

\* The first chain of parts_funcs, applied in its order to a volume.
ImageChain(vol) == slice_image(normalize(squeeze(npz_loader(vol))))

\* A pipe runs its first chain on a file x of its list and has the image
\* element it yields under the name 'inputs'.
LoadImage(p) ==
  /\ status[p] = "run" /\ train.pipes # <<>>
  /\ \E k \in 1..Len(train.pipes), vol \in VolumeShapes :
       \E j \in 1..Len(train.pipes[k].files) :
         train' = [train EXCEPT
                     !.img_out = <<[x |-> train.pipes[k].files[j],
                                    pipe |-> k,
                                    chain |-> train.pipes[k].parts_funcs[1],
                                    shape |-> ImageChain(vol)]>>]
  /\ UNCHANGED <<ctl, disk, files, config, model_config, simu, tf, sampler,
                 images, metrics, plots>>

\* Mutant: the upper end is included, as random_integers(0, nr_levels) does.
RandintResults_Inclusive(x, cfg) == {<<h>> : h \in 0..cfg.nr_levels}

\* np.random.randint(0, config['nr_levels'], (1), dtype=dtype): the arrays
\* it can return; x is not used.
RandintResults(x, cfg) == {<<h>> : h \in 0..(cfg.nr_levels - 1)}

\* A pipe calls randint(x) for a file x of its list.
Randint(p) ==
  /\ status[p] = "run" /\ train.pipes # <<>>
  /\ \E k \in 1..Len(train.pipes) :
       \E j \in 1..Len(train.pipes[k].files) :
         \E h \in RandintResults(train.pipes[k].files[j], config[p]) :
           train' = [train EXCEPT
                       !.h_out = <<[x |-> train.pipes[k].files[j],
                                    h |-> h]>>]
  /\ UNCHANGED <<ctl, disk, files, config, model_config, simu, tf, sampler,
                 images, metrics, plots>>

\* go = trainer(train_pipe, test_pipe, config)
Trainer(p) ==
  /\ At(p, "trainer")
  /\ \E ok \in BOOLEAN :
       /\ PyStep(p, ok)
       /\ train' = IF ok THEN [train EXCEPT !.go = TRUE]
                         ELSE [train EXCEPT !.state = "trainer raised"]
  /\ UNCHANGED <<disk, files, config, model_config, simu, tf, sampler,
                 images, metrics, plots>>

LogText(l) ==
  CASE l = "log_files" -> [file |-> "training files", text |-> "train_files"]
    [] l = "log_start" -> [file |-> "config.yaml",
                           text |-> "The training is starting"]
    [] OTHER           -> [file |-> "config.yaml",
                           text |-> "The training is ending"]

\* utils.log_to(os.path.join(go.log_path, <file>), [...], prefix="#")
LogTo(p) ==
  /\ status[p] = "run" /\ pc[p] \in {"log_files", "log_start", "log_end"}
  /\ \E ok \in BOOLEAN :
       /\ PyStep(p, ok)
       /\ train' = IF ok THEN [train EXCEPT !.log = Append(@, LogText(pc[p]))]
                         ELSE train
  /\ UNCHANGED <<disk, files, config, model_config, simu, tf, sampler,
                 images, metrics, plots>>

\* go.train() is invoked ...
Train(p) ==
  /\ At(p, "train")
  /\ PyStep(p, TRUE)
  /\ train' = [train EXCEPT !.state = "running", !.calls = @ + 1]
  /\ UNCHANGED <<disk, files, config, model_config, simu, tf, sampler,
                 images, metrics, plots>>

\* Mutant: an exception of go.train() is caught and the cell goes on.
TrainReturn_Swallowed(p) ==
  /\ At(p, "train_return")
  /\ \E ok \in BOOLEAN :
       /\ PyStep(p, TRUE)
       /\ train' = [train EXCEPT !.state = IF ok THEN "returned"
                                                 ELSE "raised"]
  /\ UNCHANGED <<disk, files, config, model_config, simu, tf, sampler,
                 images, metrics, plots>>

\* ... and returns or raises.
TrainReturn(p) ==
  /\ At(p, "train_return")
  /\ \E ok \in BOOLEAN :
       /\ PyStep(p, ok)
       /\ train' = [train EXCEPT !.state = IF ok THEN "returned"
                                                 ELSE "raised"]
  /\ UNCHANGED <<disk, files, config, model_config, simu, tf, sampler,
                 images, metrics, plots>>

\* utils.color_print('TRAINING FINISHED')
PrintFinished(p) ==
  /\ At(p, "print_finished")
  /\ PyStep(p, TRUE)
  /\ train' = [train EXCEPT !.printed = Append(@, "TRAINING FINISHED")]
  /\ UNCHANGED <<disk, files, config, model_config, simu, tf, sampler,
                 images, metrics, plots>>

\* ------------------------------------------------------- specifications
NoSampler == [built |-> FALSE, N |-> 0, steps |-> 0, target_snr |-> 0,
              nr_samples |-> 0, burn_in |-> FALSE, burn_t |-> <<0, 1>>,
              options |-> <<>>, error |-> "none", ranOn |-> "never",
              s_stepsize |-> 0, st |-> 0, out |-> <<>>]

\* The files a run of notebook nb finds: its own configuration is any of
\* the configurations, the other notebook's files are not read.
Inputs(nb) ==
  {f \in [recon : ReconConfigs, model : ModelConfigs, train : TrainConfigs,
          kspace : KspaceShapes] :
     /\ f.kspace = [nx |-> MaxDim, ny |-> 2]
     /\ nb = "recon" => /\ f.train.nr_levels = 1
                         /\ f.train.input_shape = <<256, 256, 2>>
     /\ nb = "train" => f.recon = [cal |-> 20, fx |-> <<3, 2>>,
          fy |-> <<3, 2>>, poisson |-> TRUE, sampling_rate |-> <<1, 5>>,
          s_stepsize |-> 25, st |-> 30, c_steps |-> 1, nr_samples |-> 1,
          burn_in |-> FALSE, burn_t |-> <<2, 4>>, target_snr |-> 1,
          model_folder |-> "pre-trained", model_name |-> "model",
          ksp_path |-> "full_kspace.npz"]}

\* A fresh kernel in a working directory that holds `present`.
Fresh(running, present) ==
  /\ status = [p \in Procs |-> IF p \in running THEN "run" ELSE "off"]
  /\ pc = [p \in Procs |-> First(p)]
  /\ cwd = [p \in Procs |-> "."]
  /\ cellLog = [p \in Procs |-> <<>>]
  /\ trace = [p \in Procs |-> <<>>]
  /\ fs = [q \in Paths |-> IF q \in present THEN "before" ELSE "absent"]
  /\ reads = [p \in Procs |-> {}]
  /\ environ = [TOOLBOX_PATH |-> FALSE, bart_on_path |-> FALSE]
  /\ config = [p \in Procs |-> NoConfig]
  /\ model_config = NoConfig
  /\ simu = NoSimu
  /\ tf = [weights |-> "none"]
  /\ sampler = NoSampler
  /\ images = <<>>
  /\ metrics = NoMetrics
  /\ plots = NoPlots
  /\ train = NoTrain

\* One notebook, run top to bottom in a fresh working directory (an older
\* /content/bart may be there).
Init ==
  \E nb \in Procs, old \in {{}, {"bart", "bart/bart"}} :
    /\ Fresh({nb}, old)
    /\ files \in Inputs(nb)

Statement(p) ==
  \/ BashCmd(p)
  \/ EnvToolbox(p) \/ SetPath(p) \/ ImportSpreco(p) \/ Binding(p) \/ Call(p)
  \/ LoadConfig(p) \/ LoadModelConfig(p)
  \/ CallPrepareSimu(p) \/ PsLoadKspace(p) \/ PsCall(p) \/ PsMask(p)
  \/ PsReturn(p)
  \/ BuildGraph(p) \/ InitVariables(p) \/ Restore(p) \/ InsSampler(p)
  \/ RunSampler(p) \/ BurnSlice(p)
  \/ TotalSteps(p) \/ Expectations(p) \/ InitLists(p) \/ LoopHead(p)
  \/ TmpInit(p) \/ Metric(p) \/ AppendPsnrs(p) \/ AppendSsims(p)
  \/ ToArray(p) \/ PlotCurves(p)
  \/ FindFiles(p) \/ MakePipe(p) \/ LoadImage(p) \/ Randint(p) \/ Trainer(p)
  \/ LogTo(p)
  \/ Train(p) \/ TrainReturn(p) \/ PrintFinished(p)

Next == \E p \in Procs : Statement(p)

Spec == Init /\ [][Next]_vars

\* prepare_simu as a function: it has just been called with any
\* configuration, with or without a mask, on a k-space file of any shape.
SimuConfigs ==
  [cal : {10, 20}, fx : {<<3, 2>>}, fy : {<<2, 1>>}, poisson : BOOLEAN,
   sampling_rate : {<<1, 5>>}, s_stepsize : {25}, st : {30},
   c_steps : {1}, nr_samples : {1}, burn_in : {FALSE},
   burn_t : {<<2, 4>>}, target_snr : {1}, model_folder : {"pre-trained"},
   model_name : {"model"}, ksp_path : {"full_kspace.npz"}]

InitSimu ==
  \E cfg \in SimuConfigs, shape \in KspaceShapes,
     m \in {None, [src |-> "argument"]} :
    /\ status = [p \in Procs |-> IF p = "recon" THEN "run" ELSE "off"]
    /\ pc = [p \in Procs |-> IF p = "recon" THEN "ps_load_kspace"
                                            ELSE First(p)]
    /\ cwd = [p \in Procs |-> "."]
    /\ cellLog = [p \in Procs |-> <<>>]
    /\ trace = [p \in Procs |-> <<>>]
    /\ fs = [q \in Paths |-> IF q = "spreco/data/full_kspace.npz"
                               THEN "before" ELSE "absent"]
    /\ reads = [p \in Procs |-> {}]
    /\ environ = [TOOLBOX_PATH |-> TRUE, bart_on_path |-> TRUE]
    /\ files = [recon |-> cfg, model |-> CHOOSE c \in ModelConfigs : TRUE,
                train |-> CHOOSE c \in TrainConfigs : TRUE, kspace |-> shape]
    /\ config = [p \in Procs |-> IF p = "recon" THEN cfg ELSE NoConfig]
    /\ model_config = NoConfig
    /\ simu = [NoSimu EXCEPT !.maskArg = m]
    /\ tf = [weights |-> "none"]
    /\ sampler = NoSampler
    /\ images = <<>>
    /\ metrics = NoMetrics
    /\ plots = NoPlots
    /\ train = NoTrain

NextSimu == PsLoadKspace("recon") \/ PsCall("recon") \/ PsMask("recon")
            \/ PsReturn("recon")

SpecSimu == InitSimu /\ [][NextSimu]_vars

\* The construction and the run of the sampler as a function of the
\* configuration: the cell has restored the weights and is at the
\* construction, and recon_config.yaml holds any of the keys the two
\* statements read, the optional ones with any value.
RequiredKeys == CtorKeys \cup RunKeys

OptionValues == [ode |-> BOOLEAN, ext_iter |-> {0, 2}, disable_z |-> BOOLEAN,
                 use_pixelcnn |-> BOOLEAN]

OptionSettings ==
  {[k \in ks |-> v[k]] :
     ks \in SUBSET OptionalKeys,
     v \in [ode : OptionValues.ode, ext_iter : OptionValues.ext_iter,
            disable_z : OptionValues.disable_z,
            use_pixelcnn : OptionValues.use_pixelcnn]}

SamplerBase == CHOOSE c \in ReconConfigs :
                 /\ c.poisson /\ c.burn_in /\ c.c_steps = 1
                 /\ c.nr_samples = 1 /\ c.burn_t = <<2, 4>>

SamplerConfigs ==
  {[k \in (DOMAIN SamplerBase \ missing) \cup DOMAIN f |->
      IF k \in DOMAIN f THEN f[k] ELSE SamplerBase[k]] :
     missing \in SUBSET RequiredKeys, f \in OptionSettings}

InitSampler ==
  \E cfg \in SamplerConfigs :
    /\ status = [p \in Procs |-> IF p = "recon" THEN "run" ELSE "off"]
    /\ pc = [p \in Procs |-> IF p = "recon" THEN "ins_sampler"
                                            ELSE First(p)]
    /\ cwd = [p \in Procs |-> "."]
    /\ cellLog = [p \in Procs |->
         IF p = "recon"
           THEN <<[stmt |-> "build_graph", ok |-> TRUE],
                  [stmt |-> "init_variables", ok |-> TRUE],
                  [stmt |-> "restore", ok |-> TRUE]>>
           ELSE <<>>]
    /\ trace = [p \in Procs |->
         IF p = "recon" THEN <<"build_graph", "init_variables", "restore">>
                        ELSE <<>>]
    /\ fs = [q \in Paths |-> IF q = "spreco/data/pre-trained"
                               THEN "before" ELSE "absent"]
    /\ reads = [p \in Procs |-> {}]
    /\ environ = [TOOLBOX_PATH |-> TRUE, bart_on_path |-> TRUE]
    /\ files = [recon |-> cfg, model |-> CHOOSE c \in ModelConfigs : TRUE,
                train |-> CHOOSE c \in TrainConfigs : TRUE,
                kspace |-> [nx |-> MaxDim, ny |-> 2]]
    /\ config = [p \in Procs |-> IF p = "recon" THEN cfg ELSE NoConfig]
    /\ model_config = CHOOSE c \in ModelConfigs : TRUE
    /\ simu = NoSimu
    /\ tf = [weights |-> "restored"]
    /\ sampler = NoSampler
    /\ images = <<>>
    /\ metrics = NoMetrics
    /\ plots = NoPlots
    /\ train = NoTrain

NextSampler == InsSampler("recon") \/ RunSampler("recon")

SpecSampler == InitSampler /\ [][NextSampler]_vars

\* The sample grid as a function of what the run has produced: the notebook
\* is at its last cell, after a sampler run of any length under any
\* configuration.  (In Spec the sampler's outputs are cut to MaxImages
\* entries, which stand for a run of any length, and the grid cell is a call
\* that returns or raises; here the run has its length and the cell is
\* executed loop pass by loop pass.)
MaxOutputs == 320

\* The lengths of the sampler's output: one, the last that leaves the grid a
\* row short, the first that fills it, the longest.
GridOutputs == {1, (GridSize - 1) * GridStride,
                (GridSize - 1) * GridStride + 1, MaxOutputs}

\* The configurations of the run: burn_t is read only under burn_in, and
\* takes the example's value without it.
GridConfigs == {c \in ReconConfigs :
                  ~c.poisson /\ (~c.burn_in => c.burn_t = <<2, 4>>)}

\* The state of the results cell after it has run on `rows` images of nr
\* samples each.
MetricsAfter(rows, nr) ==
  LET est == [c \in Labels |-> ExpectationOf(c, nr)]
      row(fn, r) == [k \in 1..Len(PlotLabels) |->
                       [fn |-> fn, est |-> PlotLabels[k],
                        samples |-> est[PlotLabels[k]], iter |-> r - 1,
                        ref |-> "normalized_rss"]]
  IN  [total_steps |-> rows, est |-> est, i |-> rows - 1,
       completed |-> rows, tmp_psnr |-> row("psnr", rows),
       tmp_ssim |-> row("ssim", rows),
       psnrs |-> [r \in 1..rows |-> row("psnr", r)],
       ssims |-> [r \in 1..rows |-> row("ssim", r)], listed |-> TRUE]

\* The curves plotted from it.
CurvesAfter(m) ==
  [k \in 1..Len(PlotLabels) |->
     [label |-> PlotLabels[k], psnr |-> Column(m.psnrs, k),
      ssim |-> Column(m.ssims, k)]]

InitGrid ==
  \E cfg \in GridConfigs, n \in SdeNs, len \in GridOutputs :
    /\ Retained(Iota(len), n, cfg) # <<>>
    /\ status = [p \in Procs |-> IF p = "recon" THEN "run" ELSE "off"]
    /\ pc = [p \in Procs |-> IF p = "recon" THEN "grid" ELSE First(p)]
    /\ cwd = [p \in Procs |-> "."]
    /\ cellLog = [p \in Procs |->
         IF p = "recon" THEN <<[stmt |-> "compare", ok |-> TRUE]>>
                        ELSE <<>>]
    /\ trace = [p \in Procs |->
         IF p = "recon"
           THEN <<"load_config", "load_model_config", "ps_return",
                  "bind_AHA", "build_graph", "init_variables", "restore",
                  "run_sampler", "normalize", "to_array", "plot_curves">>
           ELSE <<>>]
    /\ fs = [q \in Paths |->
         IF q \in {"full_kspace.npz", "brain_mnist.tar",
                   "spreco/data/brain_mnist"} THEN "absent" ELSE "recon"]
    /\ reads = [p \in Procs |->
         IF p = "recon"
           THEN {<<q, "recon">> :
                   q \in Paths \ {"full_kspace.npz", "brain_mnist.tar",
                                  "spreco/data/brain_mnist", "spreco/data"}}
           ELSE {}]
    /\ environ = [TOOLBOX_PATH |-> TRUE, bart_on_path |-> TRUE]
    /\ files = [recon |-> cfg, model |-> CHOOSE c \in ModelConfigs : TRUE,
                train |-> CHOOSE c \in TrainConfigs :
                            c.nr_levels = 1 /\ c.input_shape = <<256, 256, 2>>,
                kspace |-> [nx |-> MaxDim, ny |-> 2]]
    /\ config = [p \in Procs |-> IF p = "recon" THEN cfg ELSE NoConfig]
    /\ model_config = CHOOSE c \in ModelConfigs : TRUE
    /\ simu = [maskArg |-> None,
               mask |-> [src |-> GenMask2D(MaxDim, 2, cfg)],
               keys |-> {"ksp_path"} \cup MaskKeys(None, cfg),
               calls |-> MaskCalls(None, MaxDim, 2, cfg),
               nx |-> MaxDim, ny |-> 2, returned |-> TRUE]
    /\ tf = [weights |-> "restored"]
    /\ sampler = [NoSampler EXCEPT
                    !.built = TRUE, !.N = n, !.steps = cfg.c_steps,
                    !.target_snr = cfg.target_snr,
                    !.nr_samples = cfg.nr_samples,
                    !.burn_in = cfg.burn_in, !.burn_t = cfg.burn_t,
                    !.options = [k \in OptionalKeys |-> Option(cfg, k)],
                    !.ranOn = "restored", !.s_stepsize = cfg.s_stepsize,
                    !.st = cfg.st, !.out = Iota(len)]
    /\ images = Retained(Iota(len), n, cfg)
    /\ metrics = MetricsAfter(Len(Retained(Iota(len), n, cfg)),
                              cfg.nr_samples)
    /\ plots = [curves |-> CurvesAfter(
                   MetricsAfter(Len(Retained(Iota(len), n, cfg)),
                                cfg.nr_samples)),
                grid |-> NoGrid]
    /\ train = NoTrain

NextGrid == GridSlice("recon") \/ GridRead("recon") \/ GridLayout("recon")

SpecGrid == InitGrid /\ [][NextGrid]_vars

\* Both notebooks in one working directory, their steps interleaved, up to
\* the loading of the configuration and the listing of the data.
InitShared ==
  /\ Fresh(Procs, {})
  /\ files = CHOOSE f \in Inputs("train") : f.train.nr_levels = 1

Setup(p) ==
  \/ BashCmd(p)
  \/ EnvToolbox(p) \/ SetPath(p) \/ ImportSpreco(p) \/ Binding(p) \/ Call(p)
  \/ LoadConfig(p) \/ LoadModelConfig(p) \/ FindFiles(p)

NextShared == \E p \in Procs : Setup(p)

SpecShared == InitShared /\ [][NextShared]_vars

\* ================================================================ claims
IsPrefix(s, t) ==
  Len(s) <= Len(t) /\ \A k \in 1..Len(s) : s[k] = t[k]

\* The order the reconstruction's steps are to keep.
ReconOrder == <<"load_config", "load_model_config", "ps_return", "bind_AHA",
                "build_graph", "init_variables", "restore", "run_sampler",
                "normalize", "to_array", "plot_curves">>

\* C1: the reconstruction notebook's steps complete in the order load the two
\* configurations, prepare_simu, bind AHA, build the graph, initialise the
\* variables, restore the weights, run the sampler, normalise, compute the
\* metrics, plot; and whenever the sampler has been started, the weights of
\* the session were the restored ones.
C1_LinearOrder ==
  /\ IsPrefix(trace["recon"], ReconOrder)
  /\ sampler.ranOn \in {"never", "restored"}

\* A run of the reconstruction that got through the plots.
C1_Witness ==
  /\ trace["recon"] = ReconOrder
  /\ sampler.ranOn = "restored"

\* The kind of the cell the log of p is of.
LogKind(p) == Cells(p)[CellOf(p, cellLog[p][1].stmt)].kind
LogCellLen(p) == Len(Cells(p)[CellOf(p, cellLog[p][1].stmt)].stmts)

\* C3 as stated: in every cell, Python or %%bash, nothing of the cell is
\* executed after a statement or command of it has failed.
C3_FailureEndsCell ==
  \A p \in Procs : \A k \in 1..Len(cellLog[p]) :
    ~cellLog[p][k].ok => k = Len(cellLog[p])

\* C3 amended: in a Python cell nothing is executed after a statement that
\* raised; a %%bash cell is never cut short: it fails only when all its
\* commands have run and the last one failed, whatever the earlier ones did.
C3_FailureEndsPythonCell ==
  \A p \in Procs : cellLog[p] # <<>> =>
    IF LogKind(p) = "bash"
      THEN status[p] = "aborted" =>
             /\ Len(cellLog[p]) = LogCellLen(p)
             /\ ~cellLog[p][Len(cellLog[p])].ok
      ELSE /\ \A k \in 1..Len(cellLog[p]) :
                ~cellLog[p][k].ok => k = Len(cellLog[p])
           /\ ~cellLog[p][Len(cellLog[p])].ok => status[p] = "aborted"

\* git clone of spreco has failed and the script has gone on to pip install.
C3_Witness ==
  \E p \in Procs : \E j, k \in 1..Len(cellLog[p]) :
    /\ cellLog[p][j] = [stmt |-> "clone_spreco", ok |-> FALSE]
    /\ cellLog[p][k].stmt = "pip_install"

StartMarker == [file |-> "config.yaml", text |-> "The training is starting"]
EndMarker   == [file |-> "config.yaml", text |-> "The training is ending"]
InLog(m) == \E k \in 1..Len(train.log) : train.log[k] = m

\* C4: the starting marker is in the log before go.train() is invoked; the
\* ending marker and TRAINING FINISHED come only after go.train() has
\* returned; when the trainer's construction or go.train() raised, neither
\* is there; go.train() is invoked at most once.
C4_MarkersAroundTrain ==
  /\ train.calls >= 1 => InLog(StartMarker)
  /\ (InLog(EndMarker) \/ train.printed # <<>>) => train.state = "returned"
  /\ train.state \in {"raised", "trainer raised"} =>
       /\ ~InLog(EndMarker) /\ train.printed = <<>>
       /\ status["train"] = "aborted"
  /\ train.calls <= 1

\* The training went through: both markers and the message are there.
C4_Witness ==
  /\ status["train"] = "done"
  /\ InLog(StartMarker) /\ InLog(EndMarker)
  /\ train.printed = <<"TRAINING FINISHED">>

\* C5: once loaded, config (either notebook) and model_config are never
\* changed by a later step.
C5_ConfigImmutable ==
  [][ /\ \A p \in Procs : config[p] # NoConfig => config'[p] = config[p]
      /\ model_config # NoConfig => model_config' = model_config ]_vars

\* The reconstruction is through and its two configurations are what was
\* loaded.
C5_Witness ==
  /\ status["recon"] = "done"
  /\ config["recon"] = files.recon
  /\ model_config = files.model

\* C2 as stated, for the documented nr_samples = 10: the curves labelled
\* "c sample(s)" hold, at every iteration, the metric of the mean over the
\* samples 0 .. c-1, for each c of 1, 2, 4, 8, 10.
C2_LabelledSampleCounts ==
  sampler.nr_samples = 10 =>
    \A k \in 1..Len(plots.curves) :
      \A r \in 1..Len(plots.curves[k].psnr) :
        /\ plots.curves[k].psnr[r].samples = 0..(plots.curves[k].label - 1)
        /\ plots.curves[k].ssim[r].samples = 0..(plots.curves[k].label - 1)

AfterLoop == \E k \in 1..Len(trace["recon"]) : trace["recon"][k] = "to_array"

\* rows of five values of metric fn, column k that of estimate PlotLabels[k]
\* at the row's iteration, each against normalized_rss.
RowsOf(m, fn) ==
  \A r \in 1..Len(m) :
    /\ Len(m[r]) = Len(PlotLabels)
    /\ \A k \in 1..Len(m[r]) :
         /\ m[r][k].fn = fn
         /\ m[r][k].est = PlotLabels[k]
         /\ m[r][k].iter = r - 1
         /\ m[r][k].ref = "normalized_rss"

MetricsShape ==
  /\ RowsOf(metrics.psnrs, "psnr") /\ RowsOf(metrics.ssims, "ssim")
  /\ \A k \in 1..Len(metrics.tmp_psnr) :
       metrics.tmp_psnr[k].ref = "normalized_rss"
  /\ \A k \in 1..Len(metrics.tmp_ssim) :
       metrics.tmp_ssim[k].ref = "normalized_rss"
  /\ AfterLoop =>
       /\ Len(metrics.psnrs) = metrics.total_steps
       /\ Len(metrics.ssims) = metrics.total_steps
       /\ metrics.total_steps = Len(images)

\* C6 as stated: every value is computed against normalized_rss; after the
\* loop psnrs and ssims have total_steps rows of five columns in the order
\* 1, 2, 4, 8, 10; and at every point of the loop len(psnrs) = len(ssims) =
\* the number of completed iterations.
C6_RowsAtEveryPoint ==
  metrics.listed =>
    /\ MetricsShape
    /\ Len(metrics.psnrs) = metrics.completed
    /\ Len(metrics.ssims) = metrics.completed

\* C6 amended: the same, except between psnrs.append(tmp_psnr) and
\* ssims.append(tmp_ssim), where psnrs is one row ahead of ssims.
C6_RowsAtIterationEnds ==
  metrics.listed =>
    /\ MetricsShape
    /\ Len(metrics.ssims) = metrics.completed
    /\ Len(metrics.psnrs) =
         IF pc["recon"] = "append_ssims" THEN metrics.completed + 1
                                         ELSE metrics.completed

\* The loop is through with at least two rows.
C6_Witness ==
  /\ AfterLoop
  /\ Len(metrics.psnrs) >= 2
  /\ Len(metrics.ssims) = Len(metrics.psnrs)

SharedPaths == {"spreco", "spreco/setup.py", "spreco/scripts", "spreco/data",
                "site-packages/spreco"}
Other(p) == IF p = "recon" THEN "train" ELSE "recon"

\* C7 as stated: the reconstruction pipeline never reads anything the
\* training pipeline wrote (and the other way round).
C7_NoCrossRead ==
  \A p \in Procs : \A r \in reads[p] : r[2] # Other(p)

\* C7 amended: only the downloads are private.  What one pipeline reads of
\* the other's writing is the spreco checkout (with setup.py and scripts),
\* spreco/data or the installed package; the reconstruction never reads the
\* training data nor the training the pre-trained model or the k-space; and
\* a git clone of spreco that succeeded is the one that made the checkout, so
\* the clone of the other pipeline has failed.
C7_OnlyDownloadsPrivate ==
  /\ \A p \in Procs : \A r \in reads[p] :
       r[2] = Other(p) => r[1] \in SharedPaths
  /\ \A r \in reads["recon"] :
       r[1] \notin {"brain_mnist.tar", "spreco/data/brain_mnist"}
  /\ \A r \in reads["train"] :
       r[1] \notin {"pre-trained.tar", "full_kspace.npz",
                    "spreco/data/pre-trained", "spreco/data/full_kspace.npz"}
  /\ \A p \in Procs : \A k \in 1..Len(cellLog[p]) :
       cellLog[p][k] = [stmt |-> "clone_spreco", ok |-> TRUE]
         => fs["spreco"] = p

\* The reconstruction has loaded its configuration from the checkout the
\* training pipeline cloned.
C7_Witness ==
  /\ <<"spreco/scripts", "train">> \in reads["recon"]
  /\ config["recon"] # NoConfig

\* C8: a noise-level index handed out by randint is one integer h with
\* 0 <= h < nr_levels, and what randint can return is the same for every
\* file.
C8_NoiseLevelInRange ==
  /\ train.h_out # <<>> =>
       /\ Len(train.h_out[1].h) = 1
       /\ 0 <= train.h_out[1].h[1]
       /\ train.h_out[1].h[1] < config["train"].nr_levels
  /\ config["train"] # NoConfig =>
       \A k \in 1..Len(train.pipes) :
         \A j \in 1..Len(train.pipes[k].files) :
           RandintResults(train.pipes[k].files[j], config["train"])
             = RandintResults("no file", config["train"])

\* The largest index of the largest nr_levels, for a test file.
C8_Witness ==
  /\ train.h_out # <<>>
  /\ config["train"] # NoConfig
  /\ config["train"].nr_levels = MaxLevels
  /\ train.h_out[1] = [x |-> "test_1.npz", h |-> <<MaxLevels - 1>>]

MaskRan == \E k \in 1..Len(cellLog["recon"]) :
             cellLog["recon"][k].stmt = "ps_mask"

\* C9: prepare_simu takes the mask from one source.  A mask passed in is
\* kept and no generator is invoked; without one, poisson true invokes
\* BART's poisson with nx, ny, fx, fy, cal and seed 1234 and does not read
\* sampling_rate, poisson false invokes gen_mask_2D with center_r = cal and
\* undersampling = sampling_rate and reads neither fx nor fy.
C9_OneMaskSource ==
  LET cfg == config["recon"]
      nx  == files.kspace.nx
      ny  == files.kspace.ny
  IN  IF ~MaskRan THEN simu.calls = <<>>
      ELSE
        /\ simu.maskArg # None =>
             /\ simu.calls = <<>>
             /\ simu.mask = simu.maskArg
             /\ simu.keys \cap {"poisson", "cal", "fx", "fy",
                                "sampling_rate"} = {}
        /\ (simu.maskArg = None /\ cfg.poisson) =>
             /\ simu.calls = <<[fn |-> "bart poisson", Y |-> nx, Z |-> ny,
                                y |-> cfg.fx, z |-> cfg.fy, s |-> 1234,
                                C |-> cfg.cal]>>
             /\ "sampling_rate" \notin simu.keys
        /\ (simu.maskArg = None /\ ~cfg.poisson) =>
             /\ simu.calls = <<[fn |-> "gen_mask_2D", nx |-> nx, ny |-> ny,
                                center_r |-> cfg.cal,
                                undersampling |-> cfg.sampling_rate]>>
             /\ simu.keys \cap {"fx", "fy"} = {}

\* prepare_simu has returned the mask it was given.
C9_Witness ==
  /\ simu.returned
  /\ simu.maskArg = [src |-> "argument"]
  /\ simu.mask = simu.maskArg

\* The last n entries of s, all of s when n is larger.
LastN(s, n) ==
  SubSeq(s, Len(s) - (IF n > Len(s) THEN Len(s) ELSE n) + 1, Len(s))

Sliced == \E k \in 1..Len(cellLog["recon"]) :
            cellLog["recon"][k] = [stmt |-> "burn_slice", ok |-> TRUE]

\* C10 as stated: with burn_in, what is kept of the sampler's outputs is the
\* last idx of them, min(idx, len) entries for every idx >= 0, idx = 0
\* included; without burn_in all of them are kept.
C10_LastIdxRetained ==
  Sliced =>
    IF config["recon"].burn_in
      THEN BurnIdx(sampler.N, config["recon"]) >= 0 =>
             images = LastN(sampler.out, BurnIdx(sampler.N, config["recon"]))
      ELSE images = sampler.out

\* C11 as stated: for every configured input_shape, the image element the
\* chain npz_loader, squeeze, normalize, slice_image yields has the shape
\* declared to create_pipe in shape_info, config['input_shape']; and the two
\* pipes are built alike but for their file lists.
C11_ElementShapeAsDeclared ==
  /\ \A k \in 1..Len(train.img_out) :
       /\ train.img_out[k].chain =
            <<"npz_loader", "squeeze", "normalize", "slice_image">>
       /\ train.img_out[k].shape =
            train.pipes[train.img_out[k].pipe].shape_info[1]
       /\ train.img_out[k].shape = config["train"].input_shape
  /\ Len(train.pipes) = 2 =>
       [train.pipes[1] EXCEPT !.files = <<>>] =
       [train.pipes[2] EXCEPT !.files = <<>>]

\* The half of C11 about the two pipes: same chain, batch size
\* batch_size * nr_gpu, shape_info and names.
C11_PipesAlike ==
  Len(train.pipes) = 2 =>
    /\ [train.pipes[1] EXCEPT !.files = <<>>] =
       [train.pipes[2] EXCEPT !.files = <<>>]
    /\ train.pipes[1].files = train.train_files
    /\ train.pipes[2].files = train.test_files
    /\ train.pipes[1].batch_size =
         config["train"].batch_size * config["train"].nr_gpu
    /\ train.pipes[1].shape_info = <<config["train"].input_shape, <<1>> >>
    /\ train.pipes[1].names = <<"inputs", "h">>

\* C12: the sampler is constructed with ode = False, ext_iter = 0,
\* disable_z = False, use_pixelcnn = False where the key is absent from the
\* configuration and with the configuration's value where it is present; an
\* absent optional key never raises; an absent required key (c_steps,
\* target_snr, nr_samples, burn_in, burn_t, s_stepsize, st) raises before
\* conditional_ancestral_sampler is invoked.
C12_SamplerOptions ==
  LET cfg == config["recon"] IN
  /\ sampler.built =>
       \A k \in OptionalKeys :
         sampler.options[k] = IF k \in DOMAIN cfg
                                THEN cfg[k]
                                ELSE [ode |-> FALSE, ext_iter |-> 0,
                                      disable_z |-> FALSE,
                                      use_pixelcnn |-> FALSE][k]
  /\ sampler.error \in {"KeyError", "NameError"} =>
       ~({"c_steps", "target_snr", "nr_samples", "burn_in", "burn_t",
          "s_stepsize", "st"} \subseteq DOMAIN cfg)
  /\ ~({"c_steps", "target_snr", "nr_samples", "burn_in", "burn_t",
        "s_stepsize", "st"} \subseteq DOMAIN cfg) =>
       /\ sampler.ranOn = "never"
       /\ sampler.out = <<>>
       /\ pc["recon"] \notin {"ins_sampler", "run_sampler"}
            => status["recon"] = "aborted"
       /\ status["recon"] = "aborted" /\ sampler.error # "other"
            => sampler.error = "KeyError"

\* The sampler has run, built from a configuration without 'ode' and
\* 'disable_z' and with ext_iter: 2 and use_pixelcnn: true.
C12_Witness ==
  /\ sampler.built /\ sampler.ranOn = "restored"
  /\ DOMAIN config["recon"] \cap {"ode", "disable_z"} = {}
  /\ {"ext_iter", "use_pixelcnn"} \subseteq DOMAIN config["recon"]
  /\ sampler.options = [ode |-> FALSE, ext_iter |-> 2, disable_z |-> FALSE,
                        use_pixelcnn |-> TRUE]

\* What a run of Spec that got to the grid cell has in its state is what
\* SpecGrid starts from.
GridStateOfRun ==
  pc["recon"] = "grid" =>
    /\ metrics = MetricsAfter(Len(images), sampler.nr_samples)
    /\ plots.curves = CurvesAfter(metrics)
    /\ images = Retained(sampler.out, sampler.N, config["recon"])
    /\ trace["recon"] = ReconOrder

\* C13 as stated: in every run that reaches the sample-grid cell, under
\* every configuration of st, c_steps, nr_samples, burn_in and burn_t, the
\* strided sequence normalized_rets[::35] has at least 10 rows with at least
\* 10 samples each, and all 100 reads samples[i, j], 0 <= i, j < 10, are in
\* bounds.
C13_GridReadsInBounds ==
  plots.grid.at # "off" =>
    /\ Len(plots.grid.samples) >= 10
    /\ plots.grid.cols >= 10
    /\ plots.grid.at = "read" =>
         /\ plots.grid.i < Len(plots.grid.samples)
         /\ plots.grid.j < plots.grid.cols
    /\ plots.grid.error # "IndexError"

\* A state SpecGrid reaches: the grid cell has drawn all its panels, in a
\* run with the rows and samples the cell needs.
C13_FullGridDrawn ==
  /\ plots.grid.at = "done"
  /\ plots.grid.drawn = GridSize * GridSize

\* A state SpecGrid reaches: a read outside the array has raised although the
\* sampler ran long enough to fill the grid and drew ten samples; the
\* burn-in slice left fewer than ten strided rows.
C13_BurnInShort ==
  /\ plots.grid.error = "IndexError"
  /\ config["recon"].burn_in /\ config["recon"].nr_samples = 10
  /\ Len(sampler.out) > (GridSize - 1) * GridStride
====
